---- MODULE Spec2Model ----
(***************************************************************************)
(* Model of the gfal2 SDN plugin (src/src/gfal_sdn.c).                     *)
(*                                                                         *)
(* A C string is a sequence of one-character strings.  A char* is either   *)
(* NULL or Ptr(s), so that the empty string and the null pointer differ.   *)
(* The process state is one sdn_t (pairs, total_size) plus what the last   *)
(* handled event did to the outside world (gfal2_stat calls, log lines).   *)
(***************************************************************************)
EXTENDS Integers, Sequences, FiniteSets, TLC

(***************************************************************************)
(* Bounds of the model.                                                    *)
(***************************************************************************)
\* Largest number of pairs a batch holds in the model.
MaxPairs == 2
\* Largest file size the metadata service reports.
MaxSize == 2
\* Longest description handed to sdn_create_pair on its own.
MaxDescLen == 7
\* Most characters put before and after a descriptor handed to sdn_dest_pasv.
MaxJunk == 1
\* Most transfer sessions opened by sdn_copy_enter_hook.
MaxSessions == 2
\* Largest number of pairs one of several sessions holds.
MaxSessionPairs == 2

(***************************************************************************)
(* Strings and pointers.                                                   *)
(***************************************************************************)
NULL == <<>>
Ptr(s) == <<s>>

\* All strings over the alphabet A of length at most n.
Strings(A, n) == UNION {[1..k -> A] : k \in 0..n}

\* The separator of a pair description, " => ".
Sep == <<" ", "=", ">", " ">>

\* What a read of an indeterminate char* can point to.
GarbageStr == <<"?">>

\* Does delimiter occur in s at index i (1-based)?
OccursAt(s, delimiter, i) ==
    /\ i + Len(delimiter) - 1 <= Len(s)
    /\ SubSeq(s, i, i + Len(delimiter) - 1) = delimiter

\* Does s contain delimiter at all?
Contains(s, delimiter) == \E i \in 1..Len(s) : OccursAt(s, delimiter, i)

\* g_strrstr for strstr: the last occurrence instead of the first.
strstr_last(s, delimiter, from) ==
    IF \E i \in from..Len(s) : OccursAt(s, delimiter, i)
    THEN CHOOSE i \in from..Len(s) :
            /\ OccursAt(s, delimiter, i)
            /\ \A j \in (i + 1)..Len(s) : ~OccursAt(s, delimiter, j)
    ELSE 0

\* strstr(remainder, delimiter), with remainder the suffix of s that starts at
\* index from: the index of the first occurrence, 0 for a NULL result.
strstr(s, delimiter, from) ==
    IF \E i \in from..Len(s) : OccursAt(s, delimiter, i)
    THEN CHOOSE i \in from..Len(s) :
            /\ OccursAt(s, delimiter, i)
            /\ \A j \in from..(i - 1) : ~OccursAt(s, delimiter, j)
    ELSE 0

\* The loop of g_strsplit: while (--max_tokens && s) cut the next token off.
\* Yields the tokens cut so far and the index where the remainder starts.
RECURSIVE SplitLoop(_, _, _, _, _)
SplitLoop(string, delimiter, remainder, max_tokens, tokens) ==
    LET s == strstr(string, delimiter, remainder)
    IN  IF max_tokens - 1 # 0 /\ s # 0
        THEN SplitLoop(string, delimiter, s + Len(delimiter), max_tokens - 1,
                       Append(tokens, SubSeq(string, remainder, s - 1)))
        ELSE <<tokens, remainder>>

\* g_strsplit(string, delimiter, max_tokens) for max_tokens >= 1: the vector
\* of tokens, without its NULL terminator.  The empty string splits into the
\* empty vector.
g_strsplit(string, delimiter, max_tokens) ==
    LET cut == SplitLoop(string, delimiter, 1, max_tokens, <<>>)
    IN  IF string # <<>>
        THEN Append(cut[1], SubSeq(string, cut[2], Len(string)))
        ELSE cut[1]

\* The values a read of vector[i] (0-based) can yield: an element, the NULL
\* terminator, or, past the terminator, an indeterminate pointer.
VectorRead(vector, i) ==
    IF i < Len(vector) THEN {Ptr(vector[i + 1])}
    ELSE IF i = Len(vector) THEN {NULL}
    ELSE {NULL, Ptr(GarbageStr)}

\* Can g_strdup of vector[i] fault?  Only on an indeterminate pointer.
VectorReadFaults(vector, i) == i > Len(vector)

\* The result of a call that did not return.
FaultedPair == [ok |-> FALSE, source |-> NULL, destination |-> NULL]

\* sdn_create_pair(description): the set of results the call can have.
sdn_create_pair(description) ==
    LET splitted == g_strsplit(description, Sep, 2)
    IN  {[ok |-> TRUE, source |-> s, destination |-> d] :
            s \in VectorRead(splitted, 0), d \in VectorRead(splitted, 1)}
        \cup (IF VectorReadFaults(splitted, 0) \/ VectorReadFaults(splitted, 1)
              THEN {FaultedPair} ELSE {})

\* The pair_t stored in the sequence.
Pair(r) == [source |-> r.source, destination |-> r.destination]

(***************************************************************************)
(* The collaborators of the plugin: metadata service, URI parser, log.     *)
(***************************************************************************)
\* The file names of the session's BatchItem descriptions, the ones the
\* metadata service is asked about.
Names == {<<"a">>, <<"b">>}

\* The descriptions the engine delivers with a BatchItem event in the model:
\* "S => D", and the degenerate ones: one without separator, and the empty one.
ItemDescriptions ==
    {sd[1] \o Sep \o sd[2] : sd \in {x \in Names \X Names : x[1] # x[2]}}
    \cup {<<"a">>, <<>>}

\* st.st_size values, and the failure return of gfal2_stat.
Sizes == 1..MaxSize
StatFail == -1
StatResults == Sizes \cup {StatFail}

\* gfal2_stat(context, path): what the metadata service m answers for path.
\* A NULL path is rejected by gfal2 with an error.
gfal2_stat(m, path) == IF path = NULL THEN StatFail ELSE m[path[1]]

\* gfal2_parse_uri(uri, NULL).  A NULL uri is outside its contract: the call
\* faults or yields no object, and the caller dereferences the result.  Host
\* extraction itself belongs to gfal2; the model keeps only which string the
\* host was taken from.
HostOf(chars) == <<"host-of", chars>>
gfal2_parse_uri(uri) == IF uri = NULL THEN NULL ELSE Ptr([host |-> HostOf(uri[1])])

\* The log lines of the plugin.
StatErrorLog(path) == [kind |-> "stat_error", path |-> path]
NotifyLog(sourceHost, destinationHost, pairCount, totalSize) ==
    [kind |-> "notify", sourceHost |-> sourceHost,
     destinationHost |-> destinationHost, pairCount |-> pairCount,
     totalSize |-> totalSize]

(***************************************************************************)
(* The size aggregation pass.                                              *)
(***************************************************************************)
\* sdn_add_size with "=" for "+=": the last size replaces the total.
sdn_add_size_assign(pair, total, m) ==
    IF gfal2_stat(m, pair.source) < 0 THEN total
    ELSE gfal2_stat(m, pair.source)

\* sdn_add_size(pair, sdn): the total after visiting one pair.
sdn_add_size(pair, total, m) ==
    IF gfal2_stat(m, pair.source) < 0 THEN total
    ELSE total + gfal2_stat(m, pair.source)

\* g_sequence_foreach(data->pairs, sdn_add_size, data), started at total.
RECURSIVE g_sequence_foreach(_, _, _)
g_sequence_foreach(seq, total, m) ==
    IF seq = <<>> THEN total
    ELSE g_sequence_foreach(Tail(seq), sdn_add_size(Head(seq), total, m), m)

\* The gfal2_stat calls of one pass, in order, each with its answer.
RECURSIVE StatCalls(_, _)
StatCalls(seq, m) ==
    IF seq = <<>> THEN <<>>
    ELSE <<[path |-> Head(seq).source,
            result |-> gfal2_stat(m, Head(seq).source)]>>
         \o StatCalls(Tail(seq), m)

\* The pair before the end iterator instead of the one at the begin iterator.
FirstPair_last(seq) == seq[Len(seq)]

\* g_sequence_get(g_sequence_get_begin_iter(pairs)) on a non-empty sequence.
FirstPair(seq) == seq[1]

\* The pass without its reset: the total accumulates over passes.
PassStart_keep(data_total) == data_total

\* data->total_size = 0: the value the pass starts from.
PassStart(data_total) == 0

\* The "Could not stat" lines of one pass, in order.
RECURSIVE StatErrors(_, _)
StatErrors(seq, m) ==
    IF seq = <<>> THEN <<>>
    ELSE (IF gfal2_stat(m, Head(seq).source) < 0
          THEN <<StatErrorLog(Head(seq).source)>> ELSE <<>>)
         \o StatErrors(Tail(seq), m)

\* sdn_notify_remote(data): the set of outcomes of the call.
\*  - On an empty sequence the begin iterator is the end iterator, never NULL:
\*    g_sequence_get on it yields NULL (read through: a fault) or, in a GLib
\*    built without checks, the sequence header read as a pair_t.
\*  - A NULL source or destination of the first pair reaches gfal2_parse_uri:
\*    the fault is in that call, or at the read of ->host after the pass.
sdn_notify_remote(data_pairs, data_total, m) ==
    IF data_pairs = <<>>
    THEN {[fault |-> TRUE, total_size |-> data_total, stats |-> <<>>, out |-> <<>>],
          [fault |-> FALSE, total_size |-> 0, stats |-> <<>>,
           out |-> <<NotifyLog(HostOf(GarbageStr), HostOf(GarbageStr), 0, 0)>>]}
    ELSE LET pair == FirstPair(data_pairs)
             source == gfal2_parse_uri(pair.source)
             destination == gfal2_parse_uri(pair.destination)
             total == g_sequence_foreach(data_pairs, PassStart(data_total), m)
         IN  IF source = NULL \/ destination = NULL
             THEN {[fault |-> TRUE, total_size |-> data_total, stats |-> <<>>,
                    out |-> <<>>],
                   [fault |-> TRUE, total_size |-> total,
                    stats |-> StatCalls(data_pairs, m),
                    out |-> StatErrors(data_pairs, m)]}
             ELSE {[fault |-> FALSE, total_size |-> total,
                    stats |-> StatCalls(data_pairs, m),
                    out |-> StatErrors(data_pairs, m)
                            \o <<NotifyLog(source[1].host, destination[1].host,
                                           Len(data_pairs), total)>>]}

(***************************************************************************)
(* The passive-mode descriptor, host:[ip]:port.                            *)
(***************************************************************************)
Digits == {"0", "1", "2", "3", "4", "5", "6", "7", "8", "9"}
HexLower == {"a", "b", "c", "d", "e", "f"}
Lower == HexLower \cup {"g", "h", "i", "j", "k", "l", "m", "n", "o", "p", "q",
                        "r", "s", "t", "u", "v", "w", "x", "y", "z"}
Upper == {"A", "B", "C", "D", "E", "F", "G", "H", "I", "J", "K", "L", "M",
          "N", "O", "P", "Q", "R", "S", "T", "U", "V", "W", "X", "Y", "Z"}
\* The bracket expressions of the regex.
HostClass == Lower \cup Upper \cup Digits \cup {".", "_", "-"}
IpClass == Digits \cup HexLower \cup {".", ":"}
PortClass == Digits

\* sizeof(host), sizeof(ip), and the largest int.
HostSize == 256
IpSize == 64
IntMax == 2147483647

\* The index after the longest run of characters of class that starts at i.
RunEnd(s, i, class) ==
    CHOOSE j \in i..(Len(s) + 1) :
        /\ \A k \in i..(j - 1) : s[k] \in class
        /\ (j = Len(s) + 1 \/ s[j] \notin class)

\* Is the character of s at index i equal to c?
CharIs(s, i, c) == i <= Len(s) /\ s[i] = c

\* The match of the regex that starts at index i, as the three groups'
\* <<first index, index after the last>>; <<>> when there is none.
MatchAt(s, i) ==
    LET h == RunEnd(s, i, HostClass)
        p == RunEnd(s, h + 2, IpClass)
        q == RunEnd(s, p + 2, PortClass)
    IN  IF /\ h > i /\ CharIs(s, h, ":") /\ CharIs(s, h + 1, "[")
           /\ p > h + 2 /\ CharIs(s, p, "]") /\ CharIs(s, p + 1, ":")
           /\ q > p + 2
        THEN <<<<i, h>>, <<h + 2, p>>, <<p + 2, q>>>>
        ELSE <<>>

\* regexec(&regex, description, 4, matches, 0): the leftmost match, <<>> for
\* REG_NOMATCH.  The regex is not anchored.
regexec(s) ==
    IF \E i \in 1..Len(s) : MatchAt(s, i) # <<>>
    THEN MatchAt(s, CHOOSE i \in 1..Len(s) :
                        /\ MatchAt(s, i) # <<>>
                        /\ \A j \in 1..(i - 1) : MatchAt(s, j) = <<>>)
    ELSE <<>>

\* g_strlcpy(dest, src, dest_size) with src the suffix of s that starts at
\* index from: what dest holds afterwards, at most dest_size - 1 characters.
g_strlcpy(s, from, dest_size) ==
    LET avail == Len(s) - from + 1
        n == IF dest_size - 1 < avail THEN dest_size - 1 ELSE avail
    IN  SubSeq(s, from, from + n - 1)

\* len = eo - so without the + 1 for the terminating NUL.
CopyLen_nonul(so, eo, size) == IF eo - so > size THEN size ELSE eo - so

\* The length handed to g_strlcpy for a match [so, eo) and a buffer of size.
CopyLen(so, eo, size) == IF eo - so + 1 > size THEN size ELSE eo - so + 1

DigitValue(c) == CHOOSE v \in 0..9 :
    <<"0", "1", "2", "3", "4", "5", "6", "7", "8", "9">>[v + 1] = c

\* The value of the digits of s from index i on, -1 standing for any value
\* beyond the range of int.
RECURSIVE DigitsValue(_, _, _)
DigitsValue(s, i, acc) ==
    IF i > Len(s) \/ s[i] \notin Digits THEN acc
    ELSE IF acc > (IntMax - DigitValue(s[i])) \div 10 THEN -1
    ELSE DigitsValue(s, i + 1, acc * 10 + DigitValue(s[i]))

\* The digits of s from index i on accumulated modulo 2^32, as the two 16-bit
\* halves <<high, low>>.
RECURSIVE DigitsWrap(_, _, _)
DigitsWrap(s, i, acc) ==
    IF i > Len(s) \/ s[i] \notin Digits THEN acc
    ELSE LET low == acc[2] * 10 + DigitValue(s[i])
         IN  DigitsWrap(s, i + 1,
                <<(acc[1] * 10 + low \div 65536) % 65536, low % 65536>>)

\* The int whose two's complement halves are w.
AsInt(w) == (IF w[1] >= 32768 THEN w[1] - 65536 ELSE w[1]) * 65536 + w[2]

\* atoi(description + so): the values the call can return.  Beyond the range
\* of int the result is not defined: the C library wraps or saturates.
atoi(s, from) ==
    IF DigitsValue(s, from, 0) >= 0 THEN {DigitsValue(s, from, 0)}
    ELSE {AsInt(DigitsWrap(s, from, <<0, 0>>)), -1, 0, IntMax, -IntMax - 1}

PasvErrorLog(description) == [kind |-> "pasv_error", description |-> description]
EndpointLog(host, ip, port) ==
    [kind |-> "endpoint", host |-> host, ip |-> ip, port |-> port]

\* sdn_dest_pasv(description): the log lines the call can write.
sdn_dest_pasv(description) ==
    LET matches == regexec(description)
    IN  IF matches = <<>> THEN {<<PasvErrorLog(description)>>}
        ELSE LET host == g_strlcpy(description, matches[1][1],
                            CopyLen(matches[1][1], matches[1][2], HostSize))
                 ip == g_strlcpy(description, matches[2][1],
                            CopyLen(matches[2][1], matches[2][2], IpSize))
             IN  {<<EndpointLog(host, ip, port)>> :
                    port \in atoi(description, matches[3][1])}

\* The descriptions the engine delivers with a PASV event in the model.
PasvDescriptions ==
    {<<"h", ":", "[", "1", "]", ":", "2">>,
     <<"h">>,
     <<"!", "h", ":", "[", "1", "]", ":", "2", "!">>}

(***************************************************************************)
(* The state.                                                              *)
(***************************************************************************)
VARIABLES
    pairs,       \* sdn_t.pairs: the sequence of pair_t
    total_size,  \* sdn_t.total_size
    fault,       \* the process has faulted (a read through a bad pointer)
    meta,        \* the metadata service: name -> size, or StatFail
    ev,          \* the event the listener handled last
    stats,       \* the gfal2_stat calls of that event, with their answers
    out,         \* the log lines of that event
    items,       \* the BatchItem descriptions delivered since the last BatchEnter
    frame,       \* where the session is in a BatchEnter, BatchItem*, BatchExit run
    arg,         \* the description given to sdn_create_pair called on its own
    ret,         \* what that call returned: <<>> before the call, <<r>> after
    sessions,    \* every sdn_t made by sdn_copy_enter_hook, in order of creation
    target,      \* the session whose user data the last callback was given
    hook         \* what the last sdn_copy_enter_hook returned, and *error

vars == <<pairs, total_size, fault, meta, ev, stats, out, items, frame, arg, ret,
          sessions, target, hook>>

\* Before any call of sdn_copy_enter_hook.
NoHook == [ret |-> 0, error |-> NULL]

Event(stage, description, prior) ==
    [stage |-> stage, description |-> description, prior |-> prior]

\* g_sequence_remove(begin) instead of the range: one pair is removed.
ListEnter_first(seq) == IF seq = <<>> THEN <<>> ELSE Tail(seq)

\* g_sequence_remove_range(begin, end): every pair is removed and released.
ListEnter(seq) == <<>>

\* g_sequence_prepend instead of g_sequence_append.
ListItem_prepend(seq, pair) == <<pair>> \o seq

\* g_sequence_append(data->pairs, pair).
ListItem(seq, pair) == Append(seq, pair)

\* sdn_create_data: an empty sequence, and total_size zeroed by g_new0.
Init ==
    /\ pairs = <<>>
    /\ total_size = 0
    /\ fault = FALSE
    /\ meta \in [Names -> StatResults]
    /\ ev = Event("NONE", <<>>, 0)
    /\ stats = <<>>
    /\ out = <<>>
    /\ items = <<>>
    /\ frame = "none"
    /\ arg = <<>>
    /\ ret = <<>>
    /\ sessions = <<>>
    /\ target = 0
    /\ hook = NoHook

\* sdn_event_listener, e->stage == GFAL_EVENT_LIST_ENTER.
BatchEnter ==
    /\ ~fault
    /\ pairs' = ListEnter(pairs)
    /\ ev' = Event("ENTER", <<>>, Len(pairs))
    /\ stats' = <<>>
    /\ out' = <<>>
    /\ items' = <<>>
    /\ frame' = "items"
    /\ UNCHANGED <<total_size, fault, meta, arg, ret,
                 sessions, target, hook>>

\* sdn_event_listener, e->stage == GFAL_EVENT_LIST_ITEM.
BatchItem ==
    /\ ~fault
    /\ Len(pairs) < MaxPairs
    /\ \E description \in ItemDescriptions :
       \E r \in sdn_create_pair(description) :
          /\ pairs' = IF r.ok THEN ListItem(pairs, Pair(r)) ELSE pairs
          /\ fault' = ~r.ok
          /\ ev' = Event("ITEM", description, Len(pairs))
          /\ items' = Append(items, description)
    /\ stats' = <<>>
    /\ out' = <<>>
    /\ UNCHANGED <<total_size, meta, frame, arg, ret,
                 sessions, target, hook>>

\* sdn_event_listener, e->stage == GFAL_EVENT_LIST_EXIT.
BatchExit ==
    /\ ~fault
    /\ \E r \in sdn_notify_remote(pairs, total_size, meta) :
          /\ total_size' = r.total_size
          /\ fault' = r.fault
          /\ stats' = r.stats
          /\ out' = r.out
    /\ ev' = Event("EXIT", <<>>, Len(pairs))
    /\ frame' = IF frame = "items" THEN "exit"
                 ELSE IF ev.stage = "EXIT" THEN "reexit" ELSE "none"
    /\ UNCHANGED <<pairs, meta, items, arg, ret,
                 sessions, target, hook>>

\* The PASV stage also taken by the BatchItem branch: its description is
\* recorded as a pair.
Pasv_item ==
    /\ ~fault
    /\ Len(pairs) < MaxPairs
    /\ \E description \in PasvDescriptions :
          /\ out' \in sdn_dest_pasv(description)
          /\ ev' = Event("PASV", description, Len(pairs))
          /\ \E r \in sdn_create_pair(description) :
                pairs' = ListItem(pairs, Pair(r))
    /\ stats' = <<>>
    /\ frame' = "none"
    /\ UNCHANGED <<total_size, fault, meta, items, arg, ret,
                 sessions, target, hook>>

\* sdn_event_listener, e->stage == GFAL_GRIDFTP_PASV_STAGE_QUARK.
Pasv ==
    /\ ~fault
    /\ \E description \in PasvDescriptions :
          /\ out' \in sdn_dest_pasv(description)
          /\ ev' = Event("PASV", description, Len(pairs))
    /\ stats' = <<>>
    /\ frame' = "none"
    /\ UNCHANGED <<pairs, total_size, fault, meta, items, arg, ret,
                 sessions, target, hook>>

\* A last branch without its test: any other stage is taken for PASV.
OtherStage_pasv ==
    /\ ~fault
    /\ out' \in sdn_dest_pasv(<<>>)
    /\ ev' = Event("OTHER", <<>>, Len(pairs))
    /\ stats' = <<>>
    /\ frame' = "none"
    /\ UNCHANGED <<pairs, total_size, fault, meta, items, arg, ret,
                 sessions, target, hook>>

\* sdn_event_listener, any other stage: no branch is taken.
OtherStage ==
    /\ ~fault
    /\ ev' = Event("OTHER", <<>>, Len(pairs))
    /\ stats' = <<>>
    /\ out' = <<>>
    /\ frame' = "none"
    /\ UNCHANGED <<pairs, total_size, fault, meta, items, arg, ret,
                 sessions, target, hook>>

\* The environment: a file changes size, appears or becomes unreachable.
MetaChange ==
    /\ ~fault
    /\ \E n \in Names, r \in StatResults :
          /\ meta[n] # r
          /\ meta' = [meta EXCEPT ![n] = r]
    /\ UNCHANGED <<pairs, total_size, fault, ev, stats, out, items, frame, arg, ret,
                 sessions, target, hook>>

Next ==
    \/ BatchEnter
    \/ BatchItem
    \/ BatchExit
    \/ Pasv
    \/ OtherStage
    \/ MetaChange

Spec == Init /\ [][Next]_vars

(***************************************************************************)
(* sdn_create_pair on its own, over every short description.               *)
(***************************************************************************)
ParseAlphabet == {" ", "=", ">", "a"}

InitParse ==
    /\ pairs = <<>>
    /\ total_size = 0
    /\ fault = FALSE
    /\ meta = [n \in Names |-> StatFail]
    /\ ev = Event("NONE", <<>>, 0)
    /\ stats = <<>>
    /\ out = <<>>
    /\ items = <<>>
    /\ frame = "none"
    /\ arg \in Strings(ParseAlphabet, MaxDescLen)
    /\ ret = <<>>
    /\ sessions = <<>>
    /\ target = 0
    /\ hook = NoHook

CallCreatePair ==
    /\ ret = <<>>
    /\ \E r \in sdn_create_pair(arg) : ret' = <<r>>
    /\ UNCHANGED <<pairs, total_size, fault, meta, ev, stats, out, items, frame, arg,
                 sessions, target, hook>>

NextParse == CallCreatePair

SpecParse == InitParse /\ [][NextParse]_vars

(***************************************************************************)
(* sdn_dest_pasv called on its own, on descriptors around the sizes of its *)
(* buffers and the range of int.                                           *)
(***************************************************************************)
Run(c, n) == [i \in 1..n |-> c]

PasvHosts ==
    {Run("h", n) : n \in {1} \cup (HostSize - 2)..(HostSize + 1)}
        \cup {<<"H", ".", "a", "-", "1", "_">>}

PasvIps ==
    {Run("1", n) : n \in {1} \cup (IpSize - 2)..(IpSize + 1)}
        \cup {<<"1", ".", "2">>, <<"a", ":", "b", ":", ":", "1">>}

PasvPorts ==
    {<<"2">>, <<"0", "0", "7">>, <<"6", "5", "5", "3", "5">>,
     <<"2", "1", "4", "7", "4", "8", "3", "6", "4", "7">>,
     <<"2", "1", "4", "7", "4", "8", "3", "6", "4", "8">>,
     <<"4", "2", "9", "4", "9", "6", "7", "2", "9", "7">>,
     Run("9", 20)}

\* What surrounds the descriptor in the description.
Junk == Strings({"!"}, MaxJunk)

Descriptor(host, ip, port) ==
    host \o <<":", "[">> \o ip \o <<"]", ":">> \o port

\* Descriptions without any descriptor in them.
PasvMalformed ==
    {<<>>, <<"h">>, <<"h", ":", "[", "1", "]", ":">>,
     <<"h", ":", "[", "g", "]", ":", "2">>, <<"h", ":", "1", ":", "2">>,
     <<":", "[", "1", "]", ":", "2">>, <<"h", ":", "[", "]", ":", "2">>,
     <<"H", ":", "[", "A", "]", ":", "2">>}

\* Every host with every ip, and every port with a short host and ip.
PasvDescriptors ==
    {Descriptor(d[1], d[2], <<"2">>) : d \in PasvHosts \X PasvIps}
        \cup {Descriptor(<<"h">>, <<"1">>, port) : port \in PasvPorts}

PasvInputs ==
    {d[1] \o d[2] \o d[3] : d \in Junk \X PasvDescriptors \X Junk}
        \cup PasvMalformed

InitPasv ==
    /\ pairs = <<>>
    /\ total_size = 0
    /\ fault = FALSE
    /\ meta = [n \in Names |-> StatFail]
    /\ ev = Event("NONE", <<>>, 0)
    /\ stats = <<>>
    /\ out = <<>>
    /\ items = <<>>
    /\ frame = "none"
    /\ arg \in PasvInputs
    /\ ret = <<>>
    /\ sessions = <<>>
    /\ target = 0
    /\ hook = NoHook

CallDestPasv ==
    /\ ret = <<>>
    /\ \E r \in sdn_dest_pasv(arg) : ret' = <<r>>
    /\ UNCHANGED <<pairs, total_size, fault, meta, ev, stats, out, items, frame, arg,
                 sessions, target, hook>>

NextPasv == CallDestPasv

SpecPasv == InitPasv /\ [][NextPasv]_vars

(***************************************************************************)
(* Several transfer sessions: sdn_copy_enter_hook gives each its own sdn_t *)
(* as the user data of sdn_event_listener, the engine hands that user data *)
(* back with every event of the session and destroys it with the session.  *)
(***************************************************************************)
\* sdn_create_data(context): a new sdn_t, not yet owned by any session.
sdn_create_data ==
    [pairs |-> <<>>, total_size |-> 0, status |-> "allocated"]

\* sdn_release_data(p): the sequence, its pairs and the sdn_t are freed.
sdn_release_data(sdn) ==
    [pairs |-> <<>>, total_size |-> 0, status |-> "released"]

\* gfalt_add_event_callback(params, callback, udata, udata_free, &tmp_error),
\* a function of the engine: the callback is registered with its user data,
\* or tmp_error is set and the user data is not taken, or tmp_error is set
\* after udata_free was called on the user data.
gfalt_add_event_callback(udata) ==
    {[tmp_error |-> NULL, udata |-> [udata EXCEPT !.status = "active"]],
     [tmp_error |-> Ptr(<<"EEXIST">>), udata |-> udata],
     [tmp_error |-> Ptr(<<"EEXIST">>), udata |-> sdn_release_data(udata)]}

\* gfal2_propagate_prefixed_error(error, tmp_error, __func__).
gfal2_propagate_prefixed_error(tmp_error, func) == Ptr(<<func>> \o tmp_error[1])

RegisteredLog == [kind |-> "registered"]

\* The stages and descriptions of the events of a session.
SessionEvents ==
    {<<"ENTER", <<>>>>, <<"EXIT", <<>>>>, <<"OTHER", <<>>>>,
     <<"ITEM", <<"a">> \o Sep \o <<"b">>>>,
     <<"PASV", <<"h", ":", "[", "1", "]", ":", "2">>>>}

\* The files of the sessions: every name has a size.
SessionMeta == [n \in Names |-> 1]

\* sdn_event_listener(e, user_data) with user_data the sdn_t data: what the
\* call can leave in data, and its gfal2_stat calls and log lines.
sdn_event_listener(stage, description, data, m) ==
    IF stage = "ENTER"
    THEN {[pairs |-> ListEnter(data.pairs), total_size |-> data.total_size,
           fault |-> FALSE, stats |-> <<>>, out |-> <<>>]}
    ELSE IF stage = "ITEM"
    THEN {[pairs |-> IF r.ok THEN ListItem(data.pairs, Pair(r)) ELSE data.pairs,
           total_size |-> data.total_size,
           fault |-> ~r.ok, stats |-> <<>>, out |-> <<>>] :
            r \in sdn_create_pair(description)}
    ELSE IF stage = "EXIT"
    THEN {[pairs |-> data.pairs, total_size |-> r.total_size,
           fault |-> r.fault, stats |-> r.stats, out |-> r.out] :
            r \in sdn_notify_remote(data.pairs, data.total_size, m)}
    ELSE IF stage = "PASV"
    THEN {[pairs |-> data.pairs, total_size |-> data.total_size,
           fault |-> FALSE, stats |-> <<>>, out |-> o] :
            o \in sdn_dest_pasv(description)}
    ELSE {[pairs |-> data.pairs, total_size |-> data.total_size,
           fault |-> FALSE, stats |-> <<>>, out |-> <<>>]}

\* One sdn_t with static storage handed to every session.
DataOf_static(s) == 1

\* The sdn_t the engine hands to the callback of session s: the one its
\* sdn_copy_enter_hook made with g_new0.
DataOf(s) == s

InitSessions ==
    /\ pairs = <<>>
    /\ total_size = 0
    /\ fault = FALSE
    /\ meta = SessionMeta
    /\ ev = Event("NONE", <<>>, 0)
    /\ stats = <<>>
    /\ out = <<>>
    /\ items = <<>>
    /\ frame = "none"
    /\ arg = <<>>
    /\ ret = <<>>
    /\ sessions = <<>>
    /\ target = 0
    /\ hook = NoHook

\* sdn_copy_enter_hook(plugin_data, context, params, error).
CopyEnterHook ==
    /\ ~fault
    /\ Len(sessions) < MaxSessions
    /\ \E r \in gfalt_add_event_callback(sdn_create_data) :
          /\ sessions' = Append(sessions, r.udata)
          /\ IF r.tmp_error # NULL
             THEN /\ hook' = [ret |-> -1,
                              error |-> gfal2_propagate_prefixed_error(
                                            r.tmp_error, "sdn_copy_enter_hook")]
                  /\ out' = <<>>
             ELSE /\ hook' = [ret |-> 0, error |-> NULL]
                  /\ out' = <<RegisteredLog>>
    /\ ev' = Event("HOOK", <<>>, 0)
    /\ target' = 0
    /\ stats' = <<>>
    /\ UNCHANGED <<pairs, total_size, fault, meta, items, frame, arg, ret>>

\* The engine calls the callback of the established session s with an event.
Deliver(s) ==
    /\ ~fault
    /\ sessions[s].status = "active"
    /\ \E e \in SessionEvents :
          /\ e[1] = "ITEM" => Len(sessions[DataOf(s)].pairs) < MaxSessionPairs
          /\ \E r \in sdn_event_listener(e[1], e[2], sessions[DataOf(s)], meta) :
                /\ sessions' = [sessions EXCEPT
                                   ![DataOf(s)].pairs = r.pairs,
                                   ![DataOf(s)].total_size = r.total_size]
                /\ fault' = r.fault
                /\ stats' = r.stats
                /\ out' = r.out
          /\ ev' = Event(e[1], e[2], Len(sessions[DataOf(s)].pairs))
    /\ target' = s
    /\ UNCHANGED <<pairs, total_size, meta, items, frame, arg, ret, hook>>

\* The engine ends the established session s: it destroys the callback's
\* user data with the udata_free it was registered with.
SessionEnd(s) ==
    /\ ~fault
    /\ sessions[s].status = "active"
    /\ sessions' = [sessions EXCEPT ![s] = sdn_release_data(sessions[s])]
    /\ ev' = Event("END", <<>>, Len(sessions[s].pairs))
    /\ target' = s
    /\ stats' = <<>>
    /\ out' = <<>>
    /\ UNCHANGED <<pairs, total_size, fault, meta, items, frame, arg, ret, hook>>

NextSessions ==
    \/ CopyEnterHook
    \/ \E s \in 1..Len(sessions) : Deliver(s)
    \/ \E s \in 1..Len(sessions) : SessionEnd(s)

SpecSessions == InitSessions /\ [][NextSessions]_vars

(***************************************************************************)
(* Properties.                                                             *)
(***************************************************************************)
\* The notifications among the log lines o.
Notifications(o) == SelectSeq(o, LAMBDA r : r.kind = "notify")

\* The "Could not stat" lines among the log lines o.
StatErrorLines(o) == SelectSeq(o, LAMBDA r : r.kind = "stat_error")

\* The sum of the sizes of the successful calls of st.
RECURSIVE SumOk(_)
SumOk(st) ==
    IF st = <<>> THEN 0
    ELSE (IF Head(st).result = StatFail THEN 0 ELSE Head(st).result)
         + SumOk(Tail(st))

\* The failed calls of st.
Failed(st) == SelectSeq(st, LAMBDA c : c.result = StatFail)

\* A first pair that sdn_notify_remote can hand to gfal2_parse_uri.
FirstPairUsable ==
    /\ pairs # <<>>
    /\ pairs[1].source # NULL
    /\ pairs[1].destination # NULL

\* C1: after BatchEnter, BatchItem(d1), ..., BatchItem(dn), BatchExit with
\* n >= 1 (and no di empty) the BatchExit has emitted exactly one notification,
\* whose pairCount is n; BatchEnter and BatchItem emit none.
C1_ExitNotifiesOnce ==
    /\ (frame = "exit" /\ Len(items) >= 1 /\ \A i \in 1..Len(items) : items[i] # <<>>) =>
            /\ Len(Notifications(out)) = 1
            /\ Notifications(out)[1].pairCount = Len(items)
    /\ ev.stage \in {"ENTER", "ITEM"} => Notifications(out) = <<>>

\* C2: a BatchExit never faults because of a failed lookup (a fault is due to
\* the first pair alone), and a BatchExit that returns has queried every pair
\* once, in order, logged each failure, and reports as totalSize the sum of
\* the sizes the successful lookups returned.
C2_TotalIsSumOfSuccessful ==
    ev.stage = "EXIT" =>
        /\ fault => ~FirstPairUsable
        /\ FirstPairUsable =>
            /\ ~fault
            /\ Len(stats) = Len(pairs)
            /\ \A i \in 1..Len(pairs) : stats[i].path = pairs[i].source
            /\ Len(StatErrorLines(out)) = Len(Failed(stats))
            /\ Len(Notifications(out)) = 1
            /\ Notifications(out)[1].totalSize = SumOk(stats)
            /\ total_size = SumOk(stats)

C2_Witness ==
    /\ ev.stage = "EXIT"
    /\ ~fault
    /\ Len(pairs) = 2
    /\ stats[1].result = StatFail
    /\ stats[2].result # StatFail
    /\ total_size = stats[2].result

\* C3 as stated: in every state total_size is the sum of the sizes the
\* metadata service returns for the sources of the pairs in the registry.
C3_TotalAlwaysSum ==
    ~fault => total_size = SumOk(StatCalls(pairs, meta))

\* C3 as amended: total_size changes in a BatchExit only, and directly after a
\* BatchExit that returned it is the sum of the sizes that the successful
\* queries of that pass returned for the pairs in the registry.
C3_TotalIsSumAfterExit ==
    /\ [](ev.stage = "EXIT" /\ ~fault =>
            /\ Len(stats) = Len(pairs)
            /\ \A i \in 1..Len(pairs) : stats[i].path = pairs[i].source
            /\ total_size = SumOk(stats))
    /\ [][total_size' # total_size => ev'.stage = "EXIT"]_vars

C3_Witness ==
    /\ ev.stage = "EXIT"
    /\ ~fault
    /\ ev.prior = 2
    /\ frame = "none"
    /\ total_size = 2 * MaxSize

\* C4: a BatchExit on an empty registry returns without a fault and without
\* reading a pair that is not there.
C4_EmptyExitGraceful ==
    (ev.stage = "EXIT" /\ ev.prior = 0) =>
        /\ ~fault
        /\ \A i \in 1..Len(out) :
              out[i].kind = "notify" => out[i].sourceHost # HostOf(GarbageStr)

\* C5: a BatchExit whose first pair was recorded from a description without
\* separator, with an absent destination, returns without a fault.
C5_AbsentDestinationTolerated ==
    (/\ ev.stage = "EXIT"
     /\ pairs # <<>>
     /\ ~Contains(items[1], Sep)
     /\ pairs[1].source # NULL
     /\ pairs[1].destination = NULL) => ~fault

\* C6: the registry holds, in delivery order, exactly the pairs parsed from
\* the BatchItem descriptions delivered since the last BatchEnter.
C6_RegistryIsItemsSinceEnter ==
    ~fault =>
        /\ Len(pairs) = Len(items)
        /\ \A i \in 1..Len(pairs) :
              \E r \in sdn_create_pair(items[i]) : r.ok /\ pairs[i] = Pair(r)

C6_Witness ==
    /\ ev.stage = "PASV"
    /\ Len(pairs) = 2
    /\ pairs[1] # pairs[2]
    /\ total_size > 0

\* C7: the hosts of the notification of a BatchExit are those of the source
\* and the destination of the first pair of the registry, the one parsed from
\* the first BatchItem since the last BatchEnter.
C7_HostsFromFirstPair ==
    (ev.stage = "EXIT" /\ ~fault /\ pairs # <<>>) =>
        /\ Len(Notifications(out)) = 1
        /\ \E r \in sdn_create_pair(items[1]) :
              /\ r.ok /\ r.source # NULL /\ r.destination # NULL
              /\ Notifications(out)[1].sourceHost = HostOf(r.source[1])
              /\ Notifications(out)[1].destinationHost = HostOf(r.destination[1])

C7_Witness ==
    /\ ev.stage = "EXIT"
    /\ ~fault
    /\ Len(pairs) = 2
    /\ pairs[2].source # pairs[1].source
    /\ pairs[2].destination # pairs[1].destination
    /\ Len(Notifications(out)) = 1

\* C8: a BatchEnter leaves the registry empty whatever it held, and one that
\* follows another BatchEnter changes nothing of the session.
C8_EnterClears ==
    [][ev'.stage = "ENTER" =>
          /\ pairs' = <<>>
          /\ ev.stage = "ENTER" =>
                <<pairs', total_size', fault'>> = <<pairs, total_size, fault>>]_vars

C8_Witness ==
    /\ ev.stage = "ENTER"
    /\ ev.prior = 2
    /\ pairs = <<>>
    /\ total_size > 0

\* The description arg is S, the separator, D, with the separator at index i.
SplitAt(i) ==
    [S |-> SubSeq(arg, 1, i - 1), D |-> SubSeq(arg, i + Len(Sep), Len(arg))]

\* Does s end with the first three characters of the separator, " =>"?
EndsWithSepHead(s) ==
    /\ Len(s) >= Len(Sep) - 1
    /\ SubSeq(s, Len(s) - Len(Sep) + 2, Len(s)) = SubSeq(Sep, 1, Len(Sep) - 1)

\* C9 as stated: for S and D without separator, sdn_create_pair of
\* S " => " D returns source S and destination D.
C9_SplitsEverySD ==
    ret # <<>> =>
        \A i \in 1..Len(arg) :
            (/\ OccursAt(arg, Sep, i)
             /\ ~Contains(SplitAt(i).S, Sep)
             /\ ~Contains(SplitAt(i).D, Sep)) =>
                ret[1] = [ok |-> TRUE, source |-> Ptr(SplitAt(i).S),
                          destination |-> Ptr(SplitAt(i).D)]

\* C9 as amended: the same, for S that moreover does not end with " =>".
C9_SplitsSDFirstOccurrence ==
    ret # <<>> =>
        \A i \in 1..Len(arg) :
            (/\ OccursAt(arg, Sep, i)
             /\ ~Contains(SplitAt(i).S, Sep)
             /\ ~Contains(SplitAt(i).D, Sep)
             /\ ~EndsWithSepHead(SplitAt(i).S)) =>
                ret[1] = [ok |-> TRUE, source |-> Ptr(SplitAt(i).S),
                          destination |-> Ptr(SplitAt(i).D)]

C9_Witness ==
    /\ ret # <<>>
    /\ \E i \in 1..Len(arg) :
          /\ OccursAt(arg, Sep, i)
          /\ ~Contains(SplitAt(i).S, Sep)
          /\ ~Contains(SplitAt(i).D, Sep)
          /\ ~EndsWithSepHead(SplitAt(i).S)
          /\ SplitAt(i).S # <<>>
          /\ SplitAt(i).D # <<>>
          /\ ret[1].ok

\* C10: for a description without separator, the empty one included,
\* sdn_create_pair returns the whole description as source and no destination.
C10_NoSeparatorWholeSource ==
    (ret # <<>> /\ ~Contains(arg, Sep)) =>
        ret[1] = [ok |-> TRUE, source |-> Ptr(arg), destination |-> NULL]

\* C15: an event of any other stage changes neither pairs nor total_size,
\* issues no metadata query, writes no log line and does not fault.
C15_OtherStageNoOp ==
    [][ev'.stage = "OTHER" =>
          /\ pairs' = pairs
          /\ total_size' = total_size
          /\ fault' = fault
          /\ stats' = <<>>
          /\ out' = <<>>]_vars

C15_Witness ==
    /\ ev.stage = "OTHER"
    /\ Len(pairs) = 2
    /\ total_size > 0
    /\ out = <<>>

\* C17: a BatchExit that directly follows a BatchExit on a non-empty registry
\* and gets the same answers from the metadata service emits the same
\* notification and leaves the same total_size; no BatchExit changes pairs.
C17_ExitTwiceSameTotal ==
    [][ev'.stage = "EXIT" =>
          /\ pairs' = pairs
          /\ (ev.stage = "EXIT" /\ pairs # <<>> /\ stats' = stats) =>
                /\ Len(Notifications(out')) = 1
                /\ Notifications(out') = Notifications(out)
                /\ Notifications(out')[1].pairCount = Len(pairs)
                /\ total_size' = total_size]_vars

C17_Witness ==
    /\ ev.stage = "EXIT"
    /\ frame = "reexit"
    /\ ~fault
    /\ Len(pairs) = 2
    /\ total_size = 2 * MaxSize
    /\ Len(Notifications(out)) = 1

\* C18: a BatchExit on n pairs (none from an empty description) has issued n
\* metadata queries, one per pair on its source, in insertion order; the
\* other events have issued none.
C18_ExitQueriesEachPair ==
    /\ (ev.stage = "EXIT" /\ \A i \in 1..Len(items) : items[i] # <<>>) =>
            /\ Len(stats) = Len(pairs)
            /\ \A i \in 1..Len(stats) : stats[i].path = pairs[i].source
    /\ ev.stage \in {"ENTER", "ITEM", "PASV"} => stats = <<>>

\* C19: pairs changes in BatchEnter and BatchItem only, total_size in
\* BatchExit only; a PASV event, parsed or not, changes neither.
C19_FrameOfSessionState ==
    [][/\ pairs' # pairs => ev'.stage \in {"ENTER", "ITEM"}
       /\ total_size' # total_size => ev'.stage = "EXIT"
       /\ ev'.stage = "PASV" => (pairs' = pairs /\ total_size' = total_size)]_vars

C19_Witness ==
    /\ ev.stage = "PASV"
    /\ Len(pairs) = 1
    /\ total_size > 0
    /\ out[1].kind = "endpoint"

C19_WitnessUnparsed ==
    /\ ev.stage = "PASV"
    /\ Len(pairs) = 1
    /\ total_size > 0
    /\ out[1].kind = "pasv_error"

\* The grammar <host>:[<ip>]:<port> over the whole of s: the colon of ":["
\* at index h, the bracket of "]:" at index p.
WellFormedAt(s, h, p) ==
    /\ s[h] = ":" /\ s[h + 1] = "["
    /\ s[p] = "]" /\ s[p + 1] = ":"
    /\ \A k \in 1..(h - 1) : s[k] \in HostClass
    /\ \A k \in (h + 2)..(p - 1) : s[k] \in IpClass
    /\ \A k \in (p + 2)..Len(s) : s[k] \in PortClass

WellFormed(s) ==
    \E h \in 2..(Len(s) - 5) : \E p \in (h + 3)..(Len(s) - 2) :
        WellFormedAt(s, h, p)

\* The host, ip and port substrings of a well-formed s.
FieldsOf(s) ==
    LET h == CHOOSE x \in 2..(Len(s) - 5) :
                \E y \in (x + 3)..(Len(s) - 2) : WellFormedAt(s, x, y)
        p == CHOOSE y \in (h + 3)..(Len(s) - 2) : WellFormedAt(s, h, y)
    IN  [host |-> SubSeq(s, 1, h - 1),
         ip |-> SubSeq(s, h + 2, p - 1),
         port |-> SubSeq(s, p + 2, Len(s))]

\* The endpoint line of fields f, if the value of the port digits is an int.
FieldsLog(f) ==
    <<EndpointLog(f.host, f.ip, DigitsValue(f.port, 1, 0))>>

\* Do the host and ip of fields f fit their buffers?
FieldsFit(f) == Len(f.host) < HostSize /\ Len(f.ip) < IpSize

\* C11: sdn_dest_pasv on a description that is not of the form
\* <host>:[<ip>]:<port> writes the parse failure and nothing else: no
\* endpoint line.
C11_MalformedIsParseError ==
    (ret # <<>> /\ ~WellFormed(arg)) => ret[1] = <<PasvErrorLog(arg)>>

\* C11 for the descriptions of PasvMalformed, in which no part has the form:
\* those the code does report.
C11_NoDescriptorInside ==
    (ret # <<>> /\ arg \in PasvMalformed) => ret[1] = <<PasvErrorLog(arg)>>

\* C12: sdn_dest_pasv on a well-formed description whose host and ip fit
\* their buffers writes one endpoint line with exactly the host and ip
\* substrings and the decimal value of the port digits (a value beyond the
\* range of int is the value of no port the line can carry).
C12_WellFormedParsed ==
    (ret # <<>> /\ WellFormed(arg)) =>
        LET f == FieldsOf(arg)
        IN  FieldsFit(f) =>
                (DigitsValue(f.port, 1, 0) >= 0 /\ ret[1] = FieldsLog(f))

\* C12 for the ports within the range of int.
C12_InRangePortParsed ==
    (ret # <<>> /\ WellFormed(arg)) =>
        LET f == FieldsOf(arg)
        IN  (FieldsFit(f) /\ DigitsValue(f.port, 1, 0) >= 0) =>
                ret[1] = FieldsLog(f)

\* The substring of s that group g of the regex matched.
Matched(s, g) ==
    LET m == regexec(s) IN SubSeq(s, m[g][1], m[g][2] - 1)
MatchedHost(s) == Matched(s, 1)
MatchedIp(s) == Matched(s, 2)

\* field holds the first cut characters of matched, or all of it if shorter.
CutTo(field, matched, cut) ==
    field = IF Len(matched) > cut THEN SubSeq(matched, 1, cut) ELSE matched

\* C16 as stated, capacities counted in characters of the substring: a match
\* of up to HostSize (IpSize) characters is copied whole, a longer one is cut
\* to exactly HostSize (IpSize) characters.
C16_CutToCapacity ==
    (ret # <<>> /\ ret[1][1].kind = "endpoint") =>
        /\ CutTo(ret[1][1].host, MatchedHost(arg), HostSize)
        /\ CutTo(ret[1][1].ip, MatchedIp(arg), IpSize)

\* C16: host and ip with their terminating NUL never exceed HostSize and
\* IpSize bytes; a match of up to HostSize - 1 (IpSize - 1) characters is
\* copied whole, a longer one is cut to its first HostSize - 1 (IpSize - 1)
\* characters.
C16_CutToCapacityLessNul ==
    (ret # <<>> /\ ret[1][1].kind = "endpoint") =>
        /\ Len(ret[1][1].host) + 1 <= HostSize
        /\ Len(ret[1][1].ip) + 1 <= IpSize
        /\ CutTo(ret[1][1].host, MatchedHost(arg), HostSize - 1)
        /\ CutTo(ret[1][1].ip, MatchedIp(arg), IpSize - 1)

C16_Witness ==
    /\ ret # <<>>
    /\ ret[1][1].kind = "endpoint"
    /\ Len(MatchedHost(arg)) = HostSize
    /\ Len(ret[1][1].host) = HostSize - 1
    /\ Len(MatchedIp(arg)) = IpSize - 1
    /\ ret[1][1].ip = MatchedIp(arg)

C16_WitnessIpCut ==
    /\ ret # <<>>
    /\ ret[1][1].kind = "endpoint"
    /\ Len(MatchedHost(arg)) = HostSize - 1
    /\ ret[1][1].host = MatchedHost(arg)
    /\ Len(MatchedIp(arg)) = IpSize + 1
    /\ Len(ret[1][1].ip) = IpSize - 1

\* C13: a step changes the pairs and total_size of no session other than the
\* one the event was dispatched to, and none at all when a session is opened;
\* a session that is opened starts with a registry of its own, empty and
\* with total_size 0.
C13_SessionsIsolated ==
    [][/\ Len(sessions') >= Len(sessions)
       /\ \A s \in 1..Len(sessions) :
            s # target' =>
                /\ sessions'[s].pairs = sessions[s].pairs
                /\ sessions'[s].total_size = sessions[s].total_size
       /\ Len(sessions') > Len(sessions) =>
            /\ Len(sessions') = Len(sessions) + 1
            /\ sessions'[Len(sessions')].pairs = <<>>
            /\ sessions'[Len(sessions')].total_size = 0]_vars

C13_Witness ==
    /\ Len(sessions) >= 2
    /\ sessions[1].status = "active"
    /\ sessions[2].status = "active"
    /\ sessions[1].pairs # <<>>
    /\ sessions[2].pairs # <<>>
    /\ Len(sessions[1].pairs) # Len(sessions[2].pairs)
    /\ sessions[1].total_size = Len(sessions[1].pairs)
    /\ sessions[2].total_size = Len(sessions[2].pairs)
    /\ target = 1
    /\ ev.stage = "EXIT"

\* C14: a failed sdn_copy_enter_hook returns -1 with the error under the
\* prefix of the hook, its session gets no event, and no sdn_t stays
\* allocated without a session that owns it; the sdn_t of a session that
\* ended is released.
C14_FailedRegistrationReleases ==
    /\ hook.ret = -1 =>
            (hook.error # NULL /\ hook.error[1][1] = "sdn_copy_enter_hook")
    /\ target # 0 => sessions[target].status \in {"active", "released"}
    /\ ev.stage = "END" => sessions[target].status = "released"
    /\ \A s \in 1..Len(sessions) : sessions[s].status # "allocated"

\* C14 without the release after a failed registration: what the hook does.
C14_FailedRegistrationReported ==
    /\ hook.ret = -1 =>
            (hook.error # NULL /\ hook.error[1][1] = "sdn_copy_enter_hook")
    /\ (ev.stage = "HOOK" /\ hook.ret = -1) =>
            sessions[Len(sessions)].status # "active"
    /\ target # 0 => sessions[target].status \in {"active", "released"}
    /\ ev.stage = "END" => sessions[target].status = "released"

====
